---- MODULE Spec2Model ----
(***************************************************************************)
(* Model of PartB.py: the background-verification batch script.            *)
(*                                                                         *)
(* main() loads the detector and runs three hard-coded scenarios A, B, C   *)
(* in sequence; each one fetches image URLs, runs analyze_video_background *)
(* over them, writes the report file and echoes the report.  One try block *)
(* encloses the whole of main.                                             *)
(*                                                                         *)
(* Confidences are kept in hundredths (0.75 is 75).  Python dicts are kept *)
(* as sequences of <<key, value>> pairs in insertion order.                *)
(***************************************************************************)
EXTENDS Integers, Sequences, FiniteSets, TLC

VARIABLES
    access_key_set,       \* whether access_key was given (as shipped it is the
                          \* placeholder, and every search returns [])
    main_pc,              \* position in main / analyze_video_background
    scenario,             \* 1, 2, 3 for use cases A, B, C; 0: a direct call
    search_result,        \* what the last image search met
    frames_left,          \* URLs of image_urls the frame loop has not visited
    all_detected_items,   \* dict label -> list of confidences
    all_detected_counts,  \* dict label -> count
    stream,               \* history: every box the detector returned, in order
    report,               \* the report of the current scenario, or NoReport
    files,                \* state of verification_report_{A,B,C}.json
    exc_site,             \* where the exception main caught was raised
    exc_scenario          \* the scenario that was running when it was raised

vars == <<access_key_set, main_pc, scenario, search_result, frames_left,
          all_detected_items, all_detected_counts, stream, report, files,
          exc_site, exc_scenario>>

----------------------------------------------------------------------------
(* Bounds of the model *)

\* boxes the detector returns for one frame
MaxBoxes == 2
\* boxes the detector returns over one scenario
MaxDetections == 3

(* Program constants *)

\* count=3 in each of main's three searches
FetchCount == 3
\* conf=0.5 of model.predict, in hundredths
ConfThreshold == 50
\* the report files of use cases A, B, C, in the order main runs them
ReportFiles == <<"verification_report_A.json", "verification_report_B.json",
                 "verification_report_C.json">>
NumScenarios == Len(ReportFiles)

\* labels the detector may name: one only in Home, one in Home and Office,
\* one in Home and Shop, one only in Office, one only in Shop, one in no rule
Labels == {"sofa", "chair", "refrigerator", "desk", "counter", "person"}
ConfValues == {c \in {70, 75} : c >= ConfThreshold}
Boxes == [label : Labels, conf : ConfValues]

None == "<None>"
NoReport == [none |-> TRUE]

----------------------------------------------------------------------------
(* Python dict, insertion ordered *)

KeySet(d) == {d[i][1] : i \in DOMAIN d}
Has(d, k) == k \in KeySet(d)
Index(d, k) == CHOOSE i \in DOMAIN d : d[i][1] = k
\* d.get(k, default), and d[k] of a defaultdict when k is already a key
DictGet(d, k, default) == IF Has(d, k) THEN d[Index(d, k)][2] ELSE default
\* d[k] = v
DictSet(d, k, v) ==
    IF Has(d, k) THEN [d EXCEPT ![Index(d, k)] = <<k, v>>]
    ELSE Append(d, <<k, v>>)

RECURSIVE SumSeq(_)
SumSeq(s) == IF s = <<>> THEN 0 ELSE Head(s) + SumSeq(Tail(s))

----------------------------------------------------------------------------
(* analyze_video_background: the rules *)

env_rules == <<
    [env |-> "Home",
     items |-> <<"bed", "sofa", "tv", "refrigerator", "microwave", "chair",
                 "dining table">>],
    [env |-> "Office",
     items |-> <<"desk", "computer", "whiteboard", "chair", "meeting table">>],
    [env |-> "Shop",
     items |-> <<"shelf", "counter", "bottled products", "packaged boxes",
                 "refrigerator">>] >>

----------------------------------------------------------------------------
(* analyze_video_background: accumulation *)

\* a mutation: a label already seen is not counted again
AddDetectionDedup(acc, box) ==
    [items |-> DictSet(acc.items, box.label,
                       Append(DictGet(acc.items, box.label, <<>>), box.conf)),
     counts |-> DictSet(acc.counts, box.label,
                        IF Has(acc.counts, box.label)
                        THEN DictGet(acc.counts, box.label, 0) ELSE 1)]

AddDetection(acc, box) ==
    [items |-> DictSet(acc.items, box.label,
                       Append(DictGet(acc.items, box.label, <<>>), box.conf)),
     counts |-> DictSet(acc.counts, box.label,
                        DictGet(acc.counts, box.label, 0) + 1)]

RECURSIVE AddBoxes(_, _)
AddBoxes(acc, boxes) ==
    IF boxes = <<>> THEN acc
    ELSE AddBoxes(AddDetection(acc, Head(boxes)), Tail(boxes))

Min(a, b) == IF a < b THEN a ELSE b

BoxSeqs(n) == UNION {[1..k -> Boxes] : k \in 0..n}

----------------------------------------------------------------------------
(* analyze_video_background: classification *)

\* [item for item in items if item in all_detected_counts]
CommonItems(items, counts) == SelectSeq(items, LAMBDA item : Has(counts, item))

\* a mutation: the loop lacks its break, so the last matching rule wins
RECURSIVE ClassifyNoBreak(_, _)
ClassifyNoBreak(rules, counts) ==
    IF rules = <<>> THEN [env |-> "Uncategorized", common |-> <<>>]
    ELSE LET later == ClassifyNoBreak(Tail(rules), counts)
             common == CommonItems(Head(rules).items, counts)
         IN  IF later.common # <<>> THEN later
             ELSE IF common # <<>>
                  THEN [env |-> Head(rules).env, common |-> common]
                  ELSE later

\* a mutation: a rule matches as soon as anything at all was detected
RECURSIVE ClassifyAnyDetection(_, _)
ClassifyAnyDetection(rules, counts) ==
    IF rules = <<>> THEN [env |-> "Uncategorized", common |-> <<>>]
    ELSE LET common == CommonItems(Head(rules).items, counts)
         IN  IF counts # <<>> \/ common # <<>>
             THEN [env |-> Head(rules).env, common |-> common]
             ELSE ClassifyAnyDetection(Tail(rules), counts)

\* the loop over env_rules.items(), in declaration order, left at the first
\* rule with common items; the defaults stand when no rule has any
RECURSIVE ClassifyEnvironment(_, _)
ClassifyEnvironment(rules, counts) ==
    IF rules = <<>> THEN [env |-> "Uncategorized", common |-> <<>>]
    ELSE LET common == CommonItems(Head(rules).items, counts)
         IN  IF common # <<>>
             THEN [env |-> Head(rules).env, common |-> common]
             ELSE ClassifyEnvironment(Tail(rules), counts)

TotalConfidence(common, items) ==
    SumSeq([i \in DOMAIN common |-> SumSeq(DictGet(items, common[i], <<>>))])

TotalCount(common, counts) ==
    SumSeq([i \in DOMAIN common |-> DictGet(counts, common[i], 0)])

\* round(num / den, 2), in hundredths.  The quotient is a binary double, and
\* of two equally near hundredths either may be the nearer to that double:
\* round((0.75 + 0.8) / 2, 2) is 0.78 and round((0.5 + 0.57) / 2, 2) is 0.53.
Round2(num, den) ==
    LET q == num \div den
        r == num % den
    IN  IF 2 * r < den THEN {q}
        ELSE IF 2 * r > den THEN {q + 1}
        ELSE {q, q + 1}

\* a mutation: the mean is taken over every detected label
EnvironmentConfidenceAllLabels(cls, acc) ==
    IF cls.common = <<>> THEN {0}
    ELSE LET every == [i \in DOMAIN acc.counts |-> acc.counts[i][1]]
             total_confidence == TotalConfidence(every, acc.items)
             total_count == TotalCount(every, acc.counts)
         IN  IF total_count > 0 THEN Round2(total_confidence, total_count)
             ELSE {0}

\* the values environment_confidence may take
EnvironmentConfidence(cls, acc) ==
    IF cls.common = <<>> THEN {0}
    ELSE LET total_confidence == TotalConfidence(cls.common, acc.items)
             total_count == TotalCount(cls.common, acc.counts)
         IN  IF total_count > 0 THEN Round2(total_confidence, total_count)
             ELSE {0}

----------------------------------------------------------------------------
(* analyze_video_background: comparison against the declared data *)

\* str.lower() on the environment names that occur
Lower(s) ==
    CASE s \in {"Home", "HOME", "home"} -> "home"
      [] s \in {"Office", "office"} -> "office"
      [] s \in {"Shop", "SHOP", "shop"} -> "shop"
      [] s \in {"Uncategorized", "uncategorized"} -> "uncategorized"
      [] s \in {"Garage", "garage"} -> "garage"
      [] OTHER -> s

\* str.title() on the labels that occur
Title(s) ==
    CASE s = "sofa" -> "Sofa"
      [] s = "chair" -> "Chair"
      [] s = "refrigerator" -> "Refrigerator"
      [] s = "desk" -> "Desk"
      [] s = "counter" -> "Counter"
      [] s = "person" -> "Person"
      [] OTHER -> s

\* truth value of declared_data.get("environment")
Truthy(s) == s # None /\ s # ""

EnvMismatchString(declared_env, detected_environment) ==
    "Declared environment '" \o declared_env
        \o "' does not match detected environment '"
        \o detected_environment \o "'"

AssetMismatchString(asset, declared_count, detected_count) ==
    "Declared '" \o asset \o ": " \o ToString(declared_count)
        \o "' but detected '" \o asset \o ": " \o ToString(detected_count)
        \o "'"

\* a mutation: the names are compared as written
CompareEnvironmentCaseSensitive(declared_env, detected_environment) ==
    IF Truthy(declared_env) /\ declared_env # detected_environment
    THEN [mismatches |->
              <<EnvMismatchString(declared_env, detected_environment)>>,
          risk_flag |-> "Review Required"]
    ELSE [mismatches |-> <<>>, risk_flag |-> "Pass"]

\* mismatches and risk_flag after "Mismatch 1: Environment type"
CompareEnvironment(declared_env, detected_environment) ==
    IF Truthy(declared_env)
       /\ Lower(declared_env) # Lower(detected_environment)
    THEN [mismatches |->
              <<EnvMismatchString(declared_env, detected_environment)>>,
          risk_flag |-> "Review Required"]
    ELSE [mismatches |-> <<>>, risk_flag |-> "Pass"]

\* a mutation: the mismatch is appended and the flag left alone
CompareAssetNoFlag(st, asset, declared_count, detected_count) ==
    IF declared_count # detected_count
    THEN [st EXCEPT !.mismatches =
              Append(@, AssetMismatchString(asset, declared_count,
                                            detected_count))]
    ELSE st

\* a mutation: only a shortfall is a mismatch
CompareAssetShortfall(st, asset, declared_count, detected_count) ==
    IF declared_count > detected_count
    THEN [mismatches |->
              Append(st.mismatches,
                     AssetMismatchString(asset, declared_count,
                                         detected_count)),
          risk_flag |-> "Review Required"]
    ELSE st

\* one turn of the loop of "Mismatch 2: Asset counts"
CompareAsset(st, asset, declared_count, detected_count) ==
    IF declared_count # detected_count
    THEN [mismatches |->
              Append(st.mismatches,
                     AssetMismatchString(asset, declared_count,
                                         detected_count)),
          risk_flag |-> "Review Required"]
    ELSE st

RECURSIVE CompareAssets(_, _, _)
CompareAssets(st, assets, counts) ==
    IF assets = <<>> THEN st
    ELSE LET asset == Head(assets)[1]
             declared_count == Head(assets)[2]
             detected_count == DictGet(counts, asset, 0)
         IN  CompareAssets(CompareAsset(st, asset, declared_count,
                                        detected_count),
                           Tail(assets), counts)

----------------------------------------------------------------------------
(* analyze_video_background: the report *)

\* the values detected_objects may take: one row per key of
\* all_detected_items, in the keys' order
RECURSIVE DetectedObjects(_, _)
DetectedObjects(items, counts) ==
    IF items = <<>> THEN {<<>>}
    ELSE LET item == Head(items)[1]
             confidences == Head(items)[2]
         IN  {<<[item |-> Title(item),
                 count |-> DictGet(counts, item, 0),
                 avg_confidence |-> avg]>> \o rest :
                 avg \in Round2(SumSeq(confidences), Len(confidences)),
                 rest \in DetectedObjects(Tail(items), counts)}

DeclaredEnv(declared_data) ==
    IF "environment" \in DOMAIN declared_data
    THEN declared_data.environment ELSE None

DeclaredAssets(declared_data) ==
    IF "assets" \in DOMAIN declared_data THEN declared_data.assets ELSE <<>>

\* the reports analyze_video_background may return once the frame loop is over
FinalReports(acc, declared_data) ==
    LET cls == ClassifyEnvironment(env_rules, acc.counts)
        cmp == CompareAssets(
                   CompareEnvironment(DeclaredEnv(declared_data), cls.env),
                   DeclaredAssets(declared_data), acc.counts)
    IN  {[declared_data |-> declared_data,
          analysis_results |->
              [detected_environment |-> cls.env,
               environment_confidence |-> ec,
               detected_objects |-> rows],
          mismatch_highlight |-> cmp.mismatches,
          risk_flag |-> cmp.risk_flag] :
            ec \in EnvironmentConfidence(cls, acc),
            rows \in DetectedObjects(acc.items, acc.counts)}

----------------------------------------------------------------------------
(* main: the three use cases *)

declared_data_a ==
    [environment |-> "Home",
     assets |-> << <<"refrigerator", 2>>, <<"sofa", 1>> >>]
declared_data_b ==
    [environment |-> "Shop",
     assets |-> << <<"refrigerator", 1>>, <<"counter", 1>> >>]
declared_data_c ==
    [environment |-> "Home",
     assets |-> << <<"sofa", 1>>, <<"chair", 2>> >>]

DeclaredDataOf(s) ==
    CASE s = 1 -> declared_data_a
      [] s = 2 -> declared_data_b
      [] s = 3 -> declared_data_c

(* declared data a caller of analyze_video_background may pass: main's, and
   others with the environment in another case, empty or absent, and with
   the assets absent *)
DeclaredEnvs == {"Home", "home", "Shop", "SHOP", "Office", "Uncategorized", ""}
Manifests ==
    { declared_data_a,
      declared_data_b,
      [environment |-> "SHOP",
       assets |-> << <<"sofa", 1>>, <<"chair", 2>> >>],
      [environment |-> "home",
       assets |-> << <<"chair", 0>>, <<"person", 1>>, <<"counter", 1>> >>],
      [environment |-> "",
       assets |-> << <<"sofa", 1>>, <<"chair", 2>> >>],
      [assets |-> << <<"refrigerator", 2>>, <<"sofa", 1>> >>],
      [environment |-> "Uncategorized", assets |-> <<>>],
      [environment |-> "Office"] }

----------------------------------------------------------------------------
(* The state after construction *)

Fresh == <<>>

Init ==
    /\ access_key_set \in BOOLEAN
    /\ main_pc = "load"
    /\ scenario = 0
    /\ search_result = "none"
    /\ frames_left = 0
    /\ all_detected_items = Fresh
    /\ all_detected_counts = Fresh
    /\ stream = <<>>
    /\ report = NoReport
    /\ files = [s \in 1..NumScenarios |-> "absent"]
    /\ exc_site = "none"
    /\ exc_scenario = 0

\* the locals of analyze_video_background and main's report go out of use
DropLocals ==
    /\ frames_left' = 0
    /\ all_detected_items' = Fresh
    /\ all_detected_counts' = Fresh
    /\ stream' = <<>>
    /\ report' = NoReport

\* a mutation: each use case has a guard of its own, and main goes on
CaughtPerScenario(site) ==
    /\ main_pc' = IF scenario \in 1..(NumScenarios - 1) THEN "fetch" ELSE "done"
    /\ scenario' = IF scenario \in 1..(NumScenarios - 1) THEN scenario + 1
                   ELSE scenario
    /\ exc_site' = site
    /\ exc_scenario' = scenario
    /\ DropLocals

\* an exception leaves the try block of main, unwinding the frames under it:
\* the handler prints it and main returns
Caught(site) ==
    /\ main_pc' = "done"
    /\ scenario' = scenario
    /\ exc_site' = site
    /\ exc_scenario' = scenario
    /\ DropLocals

\* analyze_video_background is entered with image_urls of n URLs: both
\* accumulators are made anew
EnterAnalyze(n) ==
    /\ main_pc' = "frames"
    /\ frames_left' = n
    /\ all_detected_items' = Fresh
    /\ all_detected_counts' = Fresh
    /\ stream' = <<>>
    /\ report' = NoReport

----------------------------------------------------------------------------
(* main: loading the detector *)

LoadModel ==
    /\ main_pc = "load"
    /\ main_pc' = "fetch"
    /\ scenario' = 1
    /\ UNCHANGED <<access_key_set, search_result, frames_left,
                   all_detected_items, all_detected_counts, stream, report,
                   files, exc_site, exc_scenario>>

LoadModelRaises ==
    /\ main_pc = "load"
    /\ Caught("load")
    /\ UNCHANGED <<access_key_set, search_result, files>>

----------------------------------------------------------------------------
(* fetch_image_urls_from_unsplash, and the call of analyze_video_background
   on what it returned *)

\* the access key is the placeholder: [] is returned
FetchPlaceholderKey ==
    /\ main_pc = "fetch"
    /\ ~access_key_set
    /\ search_result' = "placeholder_key"
    /\ EnterAnalyze(0)
    /\ UNCHANGED <<access_key_set, scenario, files, exc_site, exc_scenario>>

\* requests.get or raise_for_status raises a RequestException (transport,
\* timeout, a non-2xx status): [] is returned
FetchRequestException ==
    /\ main_pc = "fetch"
    /\ access_key_set
    /\ search_result' = "request_exception"
    /\ EnterAnalyze(0)
    /\ UNCHANGED <<access_key_set, scenario, files, exc_site, exc_scenario>>

\* the body lacks "results", or a result lacks "urls" or "regular": the list
\* comprehension raises KeyError, which is no RequestException (nor is the
\* ValueError that response.json() raises on a body that is not JSON, with a
\* requests older than 2.27)
FetchMalformedBody ==
    /\ main_pc = "fetch"
    /\ access_key_set
    /\ search_result' = "malformed_body"
    /\ Caught("fetch")
    /\ UNCHANGED <<access_key_set, files>>

FetchOk ==
    /\ main_pc = "fetch"
    /\ access_key_set
    /\ search_result' = "ok"
    /\ \E n \in 0..FetchCount : EnterAnalyze(n)
    /\ UNCHANGED <<access_key_set, scenario, files, exc_site, exc_scenario>>

----------------------------------------------------------------------------
(* analyze_video_background: one turn of the frame loop *)

\* requests.get(image_url) or raise_for_status raises: the frame is skipped
FrameFetchFails ==
    /\ main_pc = "frames"
    /\ frames_left > 0
    /\ frames_left' = frames_left - 1
    /\ UNCHANGED <<access_key_set, main_pc, scenario, search_result,
                   all_detected_items, all_detected_counts, stream, report,
                   files, exc_site, exc_scenario>>

\* model.predict raises: no RequestException, so it leaves the function
FramePredictRaises ==
    /\ main_pc = "frames"
    /\ frames_left > 0
    /\ Caught("predict")
    /\ UNCHANGED <<access_key_set, search_result, files>>

\* the detector returns boxes (none, when results[0].boxes is empty)
FrameDetect ==
    /\ main_pc = "frames"
    /\ frames_left > 0
    /\ \E boxes \in BoxSeqs(Min(MaxBoxes, MaxDetections - Len(stream))) :
          /\ LET acc == AddBoxes([items |-> all_detected_items,
                                  counts |-> all_detected_counts], boxes)
             IN  /\ all_detected_items' = acc.items
                 /\ all_detected_counts' = acc.counts
          /\ stream' = stream \o boxes
    /\ frames_left' = frames_left - 1
    /\ UNCHANGED <<access_key_set, main_pc, scenario, search_result, report,
                   files, exc_site, exc_scenario>>

----------------------------------------------------------------------------
(* analyze_video_background: after the loop *)

Finish(declared_data, next_pc) ==
    /\ main_pc = "frames"
    /\ frames_left = 0
    /\ report' \in FinalReports([items |-> all_detected_items,
                                 counts |-> all_detected_counts],
                                declared_data)
    /\ main_pc' = next_pc
    /\ UNCHANGED <<access_key_set, scenario, search_result, frames_left,
                   all_detected_items, all_detected_counts, stream, files,
                   exc_site, exc_scenario>>

\* as called by main
Analyze ==
    /\ scenario \in 1..NumScenarios
    /\ Finish(DeclaredDataOf(scenario), "write")

\* as called with any declared data
AnalyzeAny ==
    /\ scenario = 0
    /\ \E declared_data \in Manifests : Finish(declared_data, "returned")

----------------------------------------------------------------------------
(* generate_report, and main's echo of the report *)

\* open(output_file, 'w') raises: the file is as it was
GenerateReportOpenRaises ==
    /\ main_pc = "write"
    /\ Caught("open")
    /\ UNCHANGED <<access_key_set, search_result, files>>

\* the file is opened, which empties it, and json.dump or the close raises
GenerateReportDumpRaises ==
    /\ main_pc = "write"
    /\ files' = [files EXCEPT ![scenario] = "truncated"]
    /\ Caught("dump")
    /\ UNCHANGED <<access_key_set, search_result>>

GenerateReport ==
    /\ main_pc = "write"
    /\ files' = [files EXCEPT ![scenario] = "written"]
    /\ main_pc' = "echo"
    /\ UNCHANGED <<access_key_set, scenario, search_result, frames_left,
                   all_detected_items, all_detected_counts, stream, report,
                   exc_site, exc_scenario>>

\* print(json.dumps(report, indent=4)); the next use case follows
EchoReport ==
    /\ main_pc = "echo"
    /\ IF scenario < NumScenarios
       THEN main_pc' = "fetch" /\ scenario' = scenario + 1
       ELSE main_pc' = "done" /\ scenario' = scenario
    /\ DropLocals
    /\ UNCHANGED <<access_key_set, search_result, files, exc_site, exc_scenario>>

\* a print after the file is written raises (standard output is closed)
EchoRaises ==
    /\ main_pc = "echo"
    /\ Caught("echo")
    /\ UNCHANGED <<access_key_set, search_result, files>>

----------------------------------------------------------------------------
(* The run of main *)

Next ==
    \/ LoadModel
    \/ LoadModelRaises
    \/ FetchPlaceholderKey
    \/ FetchRequestException
    \/ FetchMalformedBody
    \/ FetchOk
    \/ FrameFetchFails
    \/ FramePredictRaises
    \/ FrameDetect
    \/ Analyze
    \/ GenerateReportOpenRaises
    \/ GenerateReportDumpRaises
    \/ GenerateReport
    \/ EchoReport
    \/ EchoRaises

Spec == Init /\ [][Next]_vars

(* One call of analyze_video_background, on any image_urls and declared data *)

InitAnalyze ==
    /\ access_key_set = TRUE
    /\ main_pc = "frames"
    /\ scenario = 0
    /\ search_result = "none"
    /\ frames_left \in 0..FetchCount
    /\ all_detected_items = Fresh
    /\ all_detected_counts = Fresh
    /\ stream = <<>>
    /\ report = NoReport
    /\ files = [s \in 1..NumScenarios |-> "absent"]
    /\ exc_site = "none"
    /\ exc_scenario = 0

NextAnalyze ==
    \/ FrameFetchFails
    \/ FramePredictRaises
    \/ FrameDetect
    \/ AnalyzeAny

SpecAnalyze == InitAnalyze /\ [][NextAnalyze]_vars

----------------------------------------------------------------------------
(* What the claims speak of, stated on the history of boxes *)

Abs(x) == IF x < 0 THEN -x ELSE x

\* h hundredths is a hundredth nearest to num / den
Nearest(h, num, den) == 2 * Abs(h * den - num) <= den

StreamLabels == {stream[i].label : i \in DOMAIN stream}
StreamCount(l) == Cardinality({i \in DOMAIN stream : stream[i].label = l})
\* the confidences and the number of the boxes whose label is in L
StreamSum(L) ==
    SumSeq([i \in DOMAIN stream |->
                IF stream[i].label \in L THEN stream[i].conf ELSE 0])
StreamNumber(L) == Cardinality({i \in DOMAIN stream : stream[i].label \in L})

RuleLabels(rule) == {rule.items[j] : j \in DOMAIN rule.items}
Intersects(rule) == RuleLabels(rule) \cap StreamLabels # {}
\* rule i is the first of env_rules to share a label with the boxes
FirstMatch(i) ==
    /\ Intersects(env_rules[i])
    /\ \A j \in 1..(i - 1) : ~Intersects(env_rules[j])

Reported == report # NoReport
DetectedEnvironment == report.analysis_results.detected_environment
EnvironmentConfidenceReported == report.analysis_results.environment_confidence
Rows == report.analysis_results.detected_objects
Mismatches == report.mismatch_highlight
ReportedEnv == DeclaredEnv(report.declared_data)
ReportedAssets == DeclaredAssets(report.declared_data)

\* the declared environment is present and differs, case ignored
EnvDiffers ==
    /\ ReportedEnv \notin {None, ""}
    /\ Lower(ReportedEnv) # Lower(DetectedEnvironment)

\* every environment mismatch string there can be
EnvMismatchStrings ==
    {EnvMismatchString(d, e) :
        d \in DeclaredEnvs,
        e \in {"Home", "Office", "Shop", "Uncategorized"}}

\* the asset mismatch strings that are due, in manifest order
DueAssetMismatches ==
    LET due == SelectSeq(ReportedAssets,
                         LAMBDA a : a[2] # StreamCount(a[1]))
    IN  [k \in DOMAIN due |->
            AssetMismatchString(due[k][1], due[k][2], StreamCount(due[k][1]))]

\* the rules in another order
RuleOrders == Permutations(1..Len(env_rules))
Reordered(p) == [i \in 1..Len(env_rules) |-> env_rules[p[i]]]
\* an order that only moves rules sharing no label with the boxes
MovesOnlyNonMatching(p) ==
    LET matching == {i \in 1..Len(env_rules) : Intersects(env_rules[i])}
    IN  \A i, j \in 1..Len(env_rules) :
            (i < j /\ p[i] \in matching /\ p[j] \in matching) => p[i] < p[j]

----------------------------------------------------------------------------
(* The claims *)

\* C1: the detected environment is the first rule, in the order Home, Office,
\* Shop, that shares a label with the detected labels; a later rule is never
\* selected when an earlier one intersects; and moving rules that do not
\* intersect leaves the result as it is.
C1_FirstMatchingRuleWins ==
    Reported =>
        /\ \A i \in 1..Len(env_rules) :
              (DetectedEnvironment = env_rules[i].env) <=> FirstMatch(i)
        /\ \A p \in RuleOrders :
              MovesOnlyNonMatching(p) =>
                  ClassifyEnvironment(Reordered(p), all_detected_counts).env
                      = DetectedEnvironment

\* only a refrigerator was detected, which Home and Shop both list
C1_Witness ==
    /\ Reported
    /\ StreamLabels = {"refrigerator"}
    /\ DetectedEnvironment = "Home"

\* C2: with no box at all, and whenever no rule shares a label with the
\* detected labels, the report says "Uncategorized" with confidence 0.0; in
\* every other case it says Home, Office or Shop.
C2_UncategorizedIffNoRuleIntersects ==
    Reported =>
        IF \A i \in 1..Len(env_rules) : ~Intersects(env_rules[i])
        THEN /\ DetectedEnvironment = "Uncategorized"
             /\ EnvironmentConfidenceReported = 0
        ELSE DetectedEnvironment \in {"Home", "Office", "Shop"}

\* boxes were returned, all of a label no rule lists
C2_Witness ==
    /\ Reported
    /\ StreamLabels = {"person"}
    /\ DetectedEnvironment = "Uncategorized"

\* C3: risk_flag is "Pass" exactly when mismatch_highlight is empty and
\* "Review Required" otherwise.
C3_RiskFlagIffMismatches ==
    Reported =>
        /\ report.risk_flag \in {"Pass", "Review Required"}
        /\ (report.risk_flag = "Pass") <=> (Mismatches = <<>>)

\* the environment agrees and an asset count does not
C3_Witness ==
    /\ Reported
    /\ ~EnvDiffers
    /\ Mismatches # <<>>
    /\ report.risk_flag = "Review Required"

\* C4: after the environment entry, if any, mismatch_highlight holds one entry
\* for each manifest asset whose declared count differs from the number of
\* boxes of that label (0 when there is none), in manifest order, and nothing
\* else; any such entry sets risk_flag to "Review Required".
C4_AssetMismatchesExact ==
    Reported =>
        LET off == IF EnvDiffers THEN 1 ELSE 0
        IN  /\ Len(Mismatches) = off + Len(DueAssetMismatches)
            /\ \A k \in DOMAIN DueAssetMismatches :
                  Mismatches[off + k] = DueAssetMismatches[k]
            /\ (DueAssetMismatches # <<>>)
                  => report.risk_flag = "Review Required"

\* one asset was detected more often than declared, another exactly as
\* often, another never
C4_Witness ==
    /\ Reported
    /\ \E k \in DOMAIN ReportedAssets :
          ReportedAssets[k][2] < StreamCount(ReportedAssets[k][1])
    /\ \E k \in DOMAIN ReportedAssets :
          /\ ReportedAssets[k][2] = StreamCount(ReportedAssets[k][1])
          /\ ReportedAssets[k][2] > 0
    /\ \E k \in DOMAIN ReportedAssets :
          /\ StreamCount(ReportedAssets[k][1]) = 0
          /\ ReportedAssets[k][2] > 0
    /\ Len(DueAssetMismatches) = 2

\* C5: a declared environment that is present, non-empty and differs from the
\* detected one, case ignored, gives exactly one environment mismatch string,
\* which comes first, and "Review Required", whatever the asset counts; an
\* absent, empty or equal one gives none.
C5_EnvironmentMismatch ==
    Reported =>
        IF EnvDiffers
        THEN /\ Mismatches # <<>>
             /\ Mismatches[1] = EnvMismatchString(ReportedEnv,
                                                  DetectedEnvironment)
             /\ Cardinality({k \in DOMAIN Mismatches :
                                Mismatches[k] \in EnvMismatchStrings}) = 1
             /\ report.risk_flag = "Review Required"
        ELSE \A k \in DOMAIN Mismatches :
                Mismatches[k] \notin EnvMismatchStrings

\* "SHOP" was declared and Home detected, with every asset count as declared
C5_Witness ==
    /\ Reported
    /\ ReportedEnv = "SHOP"
    /\ DetectedEnvironment = "Home"
    /\ ReportedAssets # <<>>
    /\ DueAssetMismatches = <<>>
    /\ Len(Mismatches) = 1

\* C6: a failure of one frame, of its fetch or of the detector's predict call,
\* is not fatal: no such failure ends the scenario.
C6_FrameFailureIsNotFatal == exc_site \notin {"frame_fetch", "predict"}

\* C7: a failed image search, whatever the failure, returns an empty list:
\* the scenario goes on with no frame, reports "Uncategorized", and main is
\* not ended by it.
C7_SearchFailureGivesEmptyList ==
    search_result \in {"placeholder_key", "request_exception",
                       "malformed_body"} =>
        /\ exc_site # "fetch"
        /\ frames_left = 0 /\ stream = <<>>
        /\ Reported => DetectedEnvironment = "Uncategorized"

\* where each use case's file stands once main is at use case k
EarlierWritten(k) == \A j \in 1..NumScenarios : j < k => files[j] = "written"
LaterAbsent(k) == \A j \in 1..NumScenarios : j > k => files[j] = "absent"

C9_AccumulatorsAgree ==
    /\ KeySet(all_detected_items) = StreamLabels
    /\ KeySet(all_detected_counts) = StreamLabels
    /\ Len(all_detected_items) = Cardinality(StreamLabels)
    /\ Len(all_detected_counts) = Cardinality(StreamLabels)
    /\ \A l \in StreamLabels :
          /\ DictGet(all_detected_counts, l, 0) = StreamCount(l)
          /\ Len(DictGet(all_detected_items, l, <<>>)) = StreamCount(l)
          /\ SumSeq(DictGet(all_detected_items, l, <<>>)) = StreamSum({l})
    /\ Reported =>
          /\ Len(Rows) = Cardinality(StreamLabels)
          /\ \A l \in StreamLabels : \E k \in DOMAIN Rows :
                /\ Rows[k].item = Title(l)
                /\ Rows[k].count = StreamCount(l)
                /\ Rows[k].count >= 1
                /\ Nearest(Rows[k].avg_confidence, StreamSum({l}),
                           StreamCount(l))
          /\ \A a \in DOMAIN ReportedAssets :
                ReportedAssets[a][1] \notin StreamLabels =>
                    \A k \in DOMAIN Rows :
                        Rows[k].item # Title(ReportedAssets[a][1])

\* one label came in two boxes, another in one, and a declared asset was never
\* detected
C9_Witness ==
    /\ Reported
    /\ \E l \in StreamLabels : StreamCount(l) >= 2
    /\ \E a \in DOMAIN ReportedAssets :
          ReportedAssets[a][1] \notin StreamLabels
    /\ Cardinality(StreamLabels) >= 2

\* C10: when a rule matches, environment_confidence is the sum of the
\* confidences of all boxes whose label is in the selected rule's set, divided
\* by their number, rounded to 2 decimals; boxes of other labels do not count.
C10_EnvironmentConfidence ==
    Reported =>
        \A i \in 1..Len(env_rules) :
            FirstMatch(i) =>
                LET common == RuleLabels(env_rules[i]) \cap StreamLabels
                IN  Nearest(EnvironmentConfidenceReported, StreamSum(common),
                            StreamNumber(common))

\* Home was selected on two boxes of its labels, beside a box of a label that
\* Home does not list and whose confidence would change the mean
C10_Witness ==
    /\ Reported
    /\ DetectedEnvironment = "Home"
    /\ StreamNumber(RuleLabels(env_rules[1])) = 2
    /\ StreamLabels \ RuleLabels(env_rules[1]) # {}
    /\ StreamSum(StreamLabels) * StreamNumber(RuleLabels(env_rules[1]))
          # StreamSum(RuleLabels(env_rules[1])) * Len(stream)

====
